---- MODULE Spec2Model ----
(***************************************************************************)
(* Model of package envelope (v2alpha/soap/envelope/envelope.go): the SOAP *)
(* envelope writer Write and reader Read.                                  *)
(*                                                                         *)
(* A byte stream is a sequence of one-character strings.  Write is modelled*)
(* statement by statement against an io.Writer that may fail; Read is one  *)
(* step that runs the XML decoder over the bytes of the input stream and   *)
(* stores the result in the caller's Action.                               *)
(***************************************************************************)
EXTENDS Integers, Sequences, FiniteSets, TLC

VARIABLES
    mode,       \* "send": a Write call followed by a Read of what it wrote;
                \* "recv": a Read call on a received document
    action,     \* Write's *Action argument
    pc,         \* the statement of Write that runs next
    err,        \* Write's local variable err (TRUE: non-nil)
    ret,        \* what Write returned: "none" (running), "nil", "io", "marshal"
    wr,         \* the io.Writer: bytes delivered, calls taken, calls failed,
                \* calls taken after a failed one
    failAt,     \* the writer fails its failAt-th call (0: never)
    sticky,     \* the writer also fails every call after that one
    shortN,     \* bytes a failing call still delivers
    shape,      \* how the received document was built (recv mode)
    input,      \* the bytes Read decodes
    recv0,      \* Read's *Action argument as the caller passed it
    recv,       \* the caller's Action after Read
    env,        \* Read's local variable env after dec.Decode
    rpc,        \* "idle" (Read not called), "ready", "done"
    rres,       \* what Read returned: "none", "nil", "fault", "err"
    rfault      \* the *Fault Read returned (NoFault otherwise)

vars == <<mode, action, pc, err, ret, wr, failAt, sticky, shortN,
          shape, input, recv0, recv, env, rpc, rres, rfault>>

writeVars == <<action, pc, err, ret, wr, failAt, sticky, shortN>>
readVars == <<shape, input, recv0, recv, env, rpc, rres, rfault>>

-----------------------------------------------------------------------------
(* Bounds of the model.                                                    *)

\* the writer's failing call is one of the first MaxFailAt calls
MaxFailAt == 12
\* a failing write call delivers at most MaxShort bytes
MaxShort == 1
\* a received Body holds at most MaxChildren child elements
MaxChildren == 2
\* a received document is cut short by at most MaxCut units of CutStep bytes
MaxCut == 2
CutStep == 12

-----------------------------------------------------------------------------
(* The constant bytes of the written envelope.                             *)

\* envOpen with the SOAP namespace as the default namespace.
envOpenDefault ==
    <<"<", "E", "n", "v", "e", "l", "o", "p", "e", " ", "x", "m", "l", "n", "s", "=",
      "\"", "h", "t", "t", "p", ":", "/", "/", "s", "c", "h", "e", "m", "a", "s", ".",
      "x", "m", "l", "s", "o", "a", "p", ".", "o", "r", "g", "/", "s", "o", "a", "p",
      "/", "e", "n", "v", "e", "l", "o", "p", "e", "/", "\"", ">", "<", "B", "o", "d",
      "y", ">">>

envOpen ==
    <<"<", "?", "x", "m", "l", " ", "v", "e", "r", "s", "i", "o", "n", "=", "\"", "1",
      ".", "0", "\"", " ", "e", "n", "c", "o", "d", "i", "n", "g", "=", "\"", "U", "T",
      "F", "-", "8", "\"", "?", ">", "\n", "<", "s", ":", "E", "n", "v", "e", "l", "o",
      "p", "e", " ", "x", "m", "l", "n", "s", ":", "s", "=", "\"", "h", "t", "t", "p",
      ":", "/", "/", "s", "c", "h", "e", "m", "a", "s", ".", "x", "m", "l", "s", "o",
      "a", "p", ".", "o", "r", "g", "/", "s", "o", "a", "p", "/", "e", "n", "v", "e",
      "l", "o", "p", "e", "/", "\"", " ", "s", ":", "e", "n", "c", "o", "d", "i", "n",
      "g", "S", "t", "y", "l", "e", "=", "\"", "h", "t", "t", "p", ":", "/", "/", "s",
      "c", "h", "e", "m", "a", "s", ".", "x", "m", "l", "s", "o", "a", "p", ".", "o",
      "r", "g", "/", "s", "o", "a", "p", "/", "e", "n", "c", "o", "d", "i", "n", "g",
      "/", "\"", ">", "<", "s", ":", "B", "o", "d", "y", ">">>
env1 == <<"<", "u", ":">>
env2 == <<" ", "x", "m", "l", "n", "s", ":", "u", "=", "\"">>
env3 == <<"\"", ">">>
env4 == <<"<", "/", "u", ":">>
env5 == <<">">>
envClose ==
    <<"<", "/", "s", ":", "B", "o", "d", "y", ">", "<", "/", "s", ":", "E", "n", "v",
      "e", "l", "o", "p", "e", ">">>

\* the namespace of the envelope struct's tags
soapEnvNS ==
    <<"h", "t", "t", "p", ":", "/", "/", "s", "c", "h", "e", "m", "a", "s", ".", "x",
      "m", "l", "s", "o", "a", "p", ".", "o", "r", "g", "/", "s", "o", "a", "p", "/",
      "e", "n", "v", "e", "l", "o", "p", "e", "/">>

-----------------------------------------------------------------------------
(* Values.                                                                 *)

Name(space, local) == [Space |-> space, Local |-> local]

\* Action.Args, an interface value.  kind "nil": the nil interface; "ptr": a
\* non-nil pointer to a struct  type Args struct { Foo string `xml:"<ns> foo"` };
\* "val": such a struct held by value; "chan": a value encoding/xml cannot
\* marshal.  ns is the namespace in Foo's tag (<<>>: none).
Args(kind, ns, foo) == [kind |-> kind, ns |-> ns, foo |-> foo]
NilArgs == Args("nil", <<>>, <<>>)
ZeroArgs(a) == Args(a.kind, a.ns, <<>>)

Action(name, args) == [XMLName |-> name, Args |-> args]

Fault(code, str, actor, raw) ==
    [Code |-> code, String |-> str, Actor |-> actor, Detail |-> [Raw |-> raw]]
NoFault == [none |-> TRUE]

-----------------------------------------------------------------------------
(* xml.EscapeText and the io.Writer.                                       *)

Min(a, b) == IF a < b THEN a ELSE b

escaped == {"\"", "'", "&", "<", ">", "\t", "\n", "\r"}

esc(c) ==
    CASE c = "\"" -> <<"&", "#", "3", "4", ";">>
      [] c = "'"  -> <<"&", "#", "3", "9", ";">>
      [] c = "&"  -> <<"&", "a", "m", "p", ";">>
      [] c = "<"  -> <<"&", "l", "t", ";">>
      [] c = ">"  -> <<"&", "g", "t", ";">>
      [] c = "\t" -> <<"&", "#", "x", "9", ";">>
      [] c = "\n" -> <<"&", "#", "x", "A", ";">>
      [] c = "\r" -> <<"&", "#", "x", "D", ";">>

\* Whether the writer's n-th call fails.
Fails(n) == failAt # 0 /\ (n = failAt \/ (sticky /\ n > failAt))

\* One call w.Write(p): the writer after it and whether it returned an error.
\* A failing call delivers the first shortN bytes of p.
WriterWrite(w, p) ==
    LET n == w.calls + 1
        bad == Fails(n)
        got == IF bad THEN SubSeq(p, 1, Min(shortN, Len(p))) ELSE p
    IN  [w |-> [data |-> w.data \o got,
                calls |-> n,
                errs |-> w.errs + (IF bad THEN 1 ELSE 0),
                late |-> w.late + (IF w.errs > 0 THEN 1 ELSE 0)],
         err |-> bad]

\* xml.EscapeText(w, s) from position i on, with s[last..i-1] not yet written:
\* the run before an escaped character and the escape are written by a call
\* each, the rest by a final call; the first failing call ends it.
RECURSIVE escapeText(_, _, _, _)
escapeText(w, s, last, i) ==
    IF i > Len(s) THEN WriterWrite(w, SubSeq(s, last, Len(s)))
    ELSE IF s[i] \in escaped
    THEN LET r1 == WriterWrite(w, SubSeq(s, last, i - 1))
         IN  IF r1.err THEN r1
             ELSE LET r2 == WriterWrite(r1.w, esc(s[i]))
                  IN  IF r2.err THEN r2 ELSE escapeText(r2.w, s, i + 1, i + 1)
    ELSE escapeText(w, s, last, i + 1)

EscapeText(w, s) == escapeText(w, s, 1, 1)

\* EscapeString without the escapes.
EscapeNothing(s) == s

\* (*printer).EscapeString: the same escapes, into the encoder's buffer.
RECURSIVE EscapeString(_)
EscapeString(s) ==
    IF s = <<>> THEN <<>>
    ELSE (IF Head(s) \in escaped THEN esc(Head(s)) ELSE <<Head(s)>>)
         \o EscapeString(Tail(s))

-----------------------------------------------------------------------------
(* xml.Encoder: Encode(action.Args), then Flush.                           *)

elArgs == <<"A", "r", "g", "s">>
elFoo == <<"f", "o", "o">>
attrXmlns == <<"x", "m", "l", "n", "s">>

\* The start tag the encoder writes for a field: a namespace in the field's
\* tag is declared as the element's default namespace.
StartTag(ns, local) ==
    <<"<">> \o local
    \o (IF ns = <<>> THEN <<>>
        ELSE <<" ">> \o attrXmlns \o <<"=", "\"">> \o EscapeString(ns) \o <<"\"">>)
    \o <<">">>

EndTag(local) == <<"<", "/">> \o local \o <<">">>

\* marshalValue: [ok, bytes].  The nil interface marshals to nothing; an
\* unsupported type is an error.
Marshal(a) ==
    CASE a.kind = "nil"  -> [ok |-> TRUE, bytes |-> <<>>]
      [] a.kind = "chan" -> [ok |-> FALSE, bytes |-> <<>>]
      [] OTHER ->
           [ok |-> TRUE,
            bytes |-> StartTag(<<>>, elArgs)
                      \o StartTag(a.ns, elFoo) \o EscapeString(a.foo) \o EndTag(elFoo)
                      \o EndTag(elArgs)]

\* enc.Encode(args); enc.Flush(): [w, err, kind].  The encoder buffers what it
\* marshals and hands it to the writer in one call, which an empty buffer
\* does not make; a marshal error leaves the writer untouched; the Flush that
\* follows a successful Encode finds the buffer empty.
Encode(w, a) ==
    LET m == Marshal(a)
    IN  IF ~m.ok THEN [w |-> w, err |-> TRUE, kind |-> "marshal"]
        ELSE IF m.bytes = <<>> THEN [w |-> w, err |-> FALSE, kind |-> "io"]
        ELSE LET r == WriterWrite(w, m.bytes)
             IN  [w |-> r.w, err |-> r.err, kind |-> "io"]

-----------------------------------------------------------------------------
(* Write, one action per statement.                                        *)

\* `err = <call>; if err != nil { return err }`, then the next statement.
Check(r, next) ==
    /\ wr' = r.w
    /\ err' = r.err
    /\ IF r.err THEN pc' = "done" /\ ret' = "io"
                ELSE pc' = next /\ ret' = ret

WriteFrame ==
    /\ UNCHANGED <<mode, action, failAt, sticky, shortN>>
    /\ UNCHANGED readVars

WriteEnvOpen ==
    /\ pc = "envOpen"
    /\ Check(WriterWrite(wr, envOpen), "env1")
    /\ WriteFrame

WriteEnv1 ==
    /\ pc = "env1"
    /\ Check(WriterWrite(wr, env1), "openLocal")
    /\ WriteFrame

WriteOpenLocal ==
    /\ pc = "openLocal"
    /\ Check(EscapeText(wr, action.XMLName.Local), "env2")
    /\ WriteFrame

WriteEnv2 ==
    /\ pc = "env2"
    /\ Check(WriterWrite(wr, env2), "space")
    /\ WriteFrame

WriteSpace ==
    /\ pc = "space"
    /\ Check(EscapeText(wr, action.XMLName.Space), "env3")
    /\ WriteFrame

WriteEnv3 ==
    /\ pc = "env3"
    /\ Check(WriterWrite(wr, env3), "encode")
    /\ WriteFrame

WriteArgs ==
    /\ pc = "encode"
    /\ LET r == Encode(wr, action.Args)
       IN  /\ wr' = r.w
           /\ err' = r.err
           /\ IF r.err THEN pc' = "done" /\ ret' = r.kind
                       ELSE pc' = "env4" /\ ret' = ret
    /\ WriteFrame

WriteEnv4 ==
    /\ pc = "env4"
    /\ Check(WriterWrite(wr, env4), "closeLocal")
    /\ WriteFrame

\* WriteCloseLocal with the namespace in place of the local name.
WriteCloseSpace ==
    /\ pc = "closeLocal"
    /\ wr' = EscapeText(wr, action.XMLName.Space).w
    /\ err' = err
    /\ IF err' THEN pc' = "done" /\ ret' = "io"
               ELSE pc' = "env5" /\ ret' = ret
    /\ WriteFrame

\* line 98: the result of xml.EscapeText is dropped, and the `if err != nil`
\* after it tests the err of the write of env4, which is nil here.
WriteCloseLocal ==
    /\ pc = "closeLocal"
    /\ wr' = EscapeText(wr, action.XMLName.Local).w
    /\ err' = err
    /\ IF err' THEN pc' = "done" /\ ret' = "io"
               ELSE pc' = "env5" /\ ret' = ret
    /\ WriteFrame

WriteEnv5 ==
    /\ pc = "env5"
    /\ Check(WriterWrite(wr, env5), "envClose")
    /\ WriteFrame

\* `_, err = w.Write(envClose); return err`
WriteEnvClose ==
    /\ pc = "envClose"
    /\ LET r == WriterWrite(wr, envClose)
       IN  /\ wr' = r.w
           /\ err' = r.err
           /\ pc' = "done"
           /\ ret' = IF r.err THEN "io" ELSE "nil"
    /\ WriteFrame

Write ==
    \/ WriteEnvOpen \/ WriteEnv1 \/ WriteOpenLocal \/ WriteEnv2 \/ WriteSpace
    \/ WriteEnv3 \/ WriteArgs \/ WriteEnv4 \/ WriteCloseLocal \/ WriteEnv5
    \/ WriteEnvClose

-----------------------------------------------------------------------------
(* xml.Decoder: the tokens of a byte stream.  The model covers elements,   *)
(* attributes, character data, character entities and processing           *)
(* instructions; comments, directives and CDATA sections ("<!") are not    *)
(* modelled and no input of the model holds one.                           *)

letters ==
    {"a", "b", "c", "d", "e", "f", "g", "h", "i", "j", "k", "l", "m", "n", "o",
     "p", "q", "r", "s", "t", "u", "v", "w", "x", "y", "z",
     "A", "B", "C", "D", "E", "F", "G", "H", "I", "J", "K", "L", "M", "N", "O",
     "P", "Q", "R", "S", "T", "U", "V", "W", "X", "Y", "Z"}
digits == {"0", "1", "2", "3", "4", "5", "6", "7", "8", "9"}
\* isNameByte, and the bytes isName accepts first
nameBytes == letters \cup digits \cup {"_", ":", ".", "-"}
nameStart == letters \cup {"_", ":"}
spaces == {" ", "\r", "\n", "\t"}

xmlURL ==
    <<"h", "t", "t", "p", ":", "/", "/", "w", "w", "w", ".", "w", "3", ".", "o", "r",
      "g", "/", "X", "M", "L", "/", "1", "9", "9", "8", "/", "n", "a", "m", "e", "s",
      "p", "a", "c", "e">>

Failed == [ok |-> FALSE, kind |-> "err"]

\* The least index from i on whose byte is in set (is not, with in = FALSE);
\* Len(s) + 1 when there is none.
Find(s, i, set, in) ==
    IF \E j \in i..Len(s) : (s[j] \in set) = in
    THEN CHOOSE j \in i..Len(s) :
             /\ (s[j] \in set) = in
             /\ \A k \in i..(j - 1) : (s[k] \in set) # in
    ELSE Len(s) + 1

\* readName: the index after the name bytes that start at i.
nameEnd(s, i) == Find(s, i, nameBytes, FALSE)

\* (*Decoder).space
skipSpace(s, i) == Find(s, i, spaces, FALSE)

colons(n) == Cardinality({k \in 1..Len(n) : n[k] = ":"})

colonAt(n, i) == Find(n, i, {":"}, TRUE)

\* A name as written: "p:l" splits into prefix and local name; a name
\* without a colon, or with an empty side, is a local name.
Split(n) ==
    IF colons(n) = 1 /\ colonAt(n, 1) \notin {1, Len(n)}
    THEN Name(SubSeq(n, 1, colonAt(n, 1) - 1), SubSeq(n, colonAt(n, 1) + 1, Len(n)))
    ELSE Name(<<>>, n)

\* The bytes s[i..j-1] as a name: a non-empty run of name bytes that starts
\* with a letter, '_' or ':', has at most one colon and is followed by
\* another byte.
nameAt(s, i, j) ==
    IF j = i \/ j > Len(s) \/ s[i] \notin nameStart \/ colons(SubSeq(s, i, j - 1)) > 1
    THEN Failed
    ELSE [ok |-> TRUE, name |-> Split(SubSeq(s, i, j - 1)), next |-> j]

\* (*Decoder).nsname at i: [ok, name, next].
NsName(s, i) == nameAt(s, i, nameEnd(s, i))

\* The character entities: the predefined ones and the numeric references of
\* the bytes xml.EscapeText escapes.
entities ==
    {<<"l", "t">>, <<"g", "t">>, <<"a", "m", "p">>, <<"a", "p", "o", "s">>,
     <<"q", "u", "o", "t">>, <<"#", "3", "4">>, <<"#", "3", "9">>,
     <<"#", "x", "9">>, <<"#", "x", "A">>, <<"#", "x", "D">>}

entity(e) ==
    CASE e = <<"l", "t">> -> "<"
      [] e = <<"g", "t">> -> ">"
      [] e = <<"a", "m", "p">> -> "&"
      [] e = <<"a", "p", "o", "s">> -> "'"
      [] e = <<"q", "u", "o", "t">> -> "\""
      [] e = <<"#", "3", "4">> -> "\""
      [] e = <<"#", "3", "9">> -> "'"
      [] e = <<"#", "x", "9">> -> "\t"
      [] e = <<"#", "x", "A">> -> "\n"
      [] e = <<"#", "x", "D">> -> "\r"

entityEnd(s, i) == Find(s, i, nameBytes \cup {"#"}, FALSE)

\* (*Decoder).text(quote, false) from i: [ok, data, next].  With quote = "" it
\* reads character data up to the next '<' or the end of input; otherwise an
\* attribute value up to the closing quote, where '<' and the end of input
\* are errors.  An entity is replaced by its character; an unknown or
\* unterminated one is an error (Strict).
RECURSIVE text(_, _, _, _)

\* The entity s[i..j-1] that follows an '&', which s[j] must end.
textEntity(s, i, j, quote, acc) ==
    IF j <= Len(s) /\ s[j] = ";" /\ SubSeq(s, i, j - 1) \in entities
    THEN text(s, j + 1, quote, Append(acc, entity(SubSeq(s, i, j - 1))))
    ELSE Failed

\* At i, where the run of plain bytes before it has been taken.
textAt(s, i, quote, acc) ==
    IF i > Len(s)
    THEN IF quote = "" THEN [ok |-> TRUE, data |-> acc, next |-> i] ELSE Failed
    ELSE IF s[i] = "<"
    THEN IF quote = "" THEN [ok |-> TRUE, data |-> acc, next |-> i] ELSE Failed
    ELSE IF s[i] = quote THEN [ok |-> TRUE, data |-> acc, next |-> i + 1]
    ELSE textEntity(s, i + 1, entityEnd(s, i + 1), quote, acc)

textRun(s, i, j, quote, acc) == textAt(s, j, quote, acc \o SubSeq(s, i, j - 1))

text(s, i, quote, acc) == textRun(s, i, Find(s, i, {"<", "&", quote}, TRUE), quote, acc)

\* The attributes of a start tag from i: [ok, attrs, empty, next].
RECURSIVE Attrs(_, _, _)

attrValue(s, acc, name, v) ==
    IF ~v.ok THEN Failed
    ELSE Attrs(s, v.next, Append(acc, [name |-> name, value |-> v.data]))

\* the value must be quoted (Strict)
attrQuote(s, acc, name, q) ==
    IF q > Len(s) \/ s[q] \notin {"\"", "'"} THEN Failed
    ELSE attrValue(s, acc, name, text(s, q + 1, s[q], <<>>))

\* the name must be followed by '=' (Strict)
attrEq(s, acc, name, e) ==
    IF e > Len(s) \/ s[e] # "=" THEN Failed
    ELSE attrQuote(s, acc, name, skipSpace(s, e + 1))

attrName(s, acc, n) ==
    IF ~n.ok THEN Failed ELSE attrEq(s, acc, n.name, skipSpace(s, n.next))

attrsAt(s, k, acc) ==
    IF k > Len(s) THEN Failed
    ELSE IF s[k] = "/"
    THEN IF k < Len(s) /\ s[k + 1] = ">"
         THEN [ok |-> TRUE, attrs |-> acc, empty |-> TRUE, next |-> k + 2]
         ELSE Failed
    ELSE IF s[k] = ">"
    THEN [ok |-> TRUE, attrs |-> acc, empty |-> FALSE, next |-> k + 1]
    ELSE attrName(s, acc, NsName(s, k))

Attrs(s, i, acc) == attrsAt(s, skipSpace(s, i), acc)

\* Token, case StartElement: the attributes' namespace declarations, in
\* order.  ns maps a prefix to its namespace; <<>> is the default namespace.
RECURSIVE Bind(_, _)
Bind(ns, attrs) ==
    IF attrs = <<>> THEN ns
    ELSE Bind(IF Head(attrs).name.Space = attrXmlns
              THEN (Head(attrs).name.Local :> Head(attrs).value) @@ ns
              ELSE IF Head(attrs).name = Name(<<>>, attrXmlns)
              THEN (<<>> :> Head(attrs).value) @@ ns
              ELSE ns,
              Tail(attrs))

\* (*Decoder).translate
Translate(n, ns, isElementName) ==
    IF n.Space = attrXmlns THEN n
    ELSE IF n.Space = <<>> /\ ~isElementName THEN n
    ELSE IF n.Space = <<"x", "m", "l">> THEN Name(xmlURL, n.Local)
    ELSE IF n.Space = <<>> /\ n.Local = attrXmlns THEN n
    ELSE IF n.Space \in DOMAIN ns THEN Name(ns[n.Space], n.Local)
    ELSE n

NoNs == [p \in {} |-> <<>>]

\* A start tag: raw is the name as written (matched against the end tag),
\* name the translated one, ns the bindings in force inside the element.
startTok(raw, ns, empty, next) ==
    [ok |-> TRUE, kind |-> "start", raw |-> raw, name |-> Translate(raw, ns, TRUE),
     ns |-> ns, empty |-> empty, next |-> next]

startAttrs(ns, raw, a) ==
    IF ~a.ok THEN Failed ELSE startTok(raw, Bind(ns, a.attrs), a.empty, a.next)

startName(s, ns, n) ==
    IF ~n.ok THEN Failed ELSE startAttrs(ns, n.name, Attrs(s, n.next, <<>>))

\* A start tag whose name begins at i.
StartTok(s, i, ns) == startName(s, ns, NsName(s, i))

endAt(s, raw, k) ==
    IF k <= Len(s) /\ s[k] = ">"
    THEN [ok |-> TRUE, kind |-> "end", raw |-> raw, next |-> k + 1]
    ELSE Failed

endName(s, n) == IF ~n.ok THEN Failed ELSE endAt(s, n.name, skipSpace(s, n.next))

\* An end tag whose name begins at i.
EndTok(s, i) == endName(s, NsName(s, i))

\* The index after the "?>" that ends a processing instruction (0: none).
piEnd(s, i) ==
    IF \E j \in i..(Len(s) - 1) : s[j] = "?" /\ s[j + 1] = ">"
    THEN 2 + CHOOSE j \in i..(Len(s) - 1) :
                 /\ s[j] = "?" /\ s[j + 1] = ">"
                 /\ \A k \in i..(j - 1) : ~(s[k] = "?" /\ s[k + 1] = ">")
    ELSE 0

piAt(e) == IF e = 0 THEN Failed ELSE [ok |-> TRUE, kind |-> "pi", next |-> e]

\* A processing instruction with target n.
piTok(s, n) == IF ~n.ok THEN Failed ELSE piAt(piEnd(s, n.next))

textTok(r) ==
    IF r.ok THEN [ok |-> TRUE, kind |-> "text", data |-> r.data, next |-> r.next]
    ELSE Failed

\* (*Decoder).Token at i: kind "start", "end", "text", "pi", "eof" or "err".
Tok(s, i, ns) ==
    IF i > Len(s) THEN [ok |-> FALSE, kind |-> "eof"]
    ELSE IF s[i] # "<" THEN textTok(text(s, i, "", <<>>))
    ELSE IF i = Len(s) THEN Failed
    ELSE IF s[i + 1] = "/" THEN EndTok(s, i + 2)
    ELSE IF s[i + 1] = "?" THEN piTok(s, NsName(s, i + 2))
    ELSE IF s[i + 1] = "!" THEN Failed
    ELSE StartTok(s, i + 1, ns)

-----------------------------------------------------------------------------
(* xml.Unmarshal into the structs of the package.  Decoder.unmarshal is    *)
(* one function driven by the type of the value it fills; typ names that   *)
(* type: "envelope", "body", "Fault", "FaultDetail", "Action", "Args",     *)
(* "string", or "skip" for an element no field takes (Decoder.Skip).       *)
(* The decoder writes into the caller's values as it goes, so a failed     *)
(* result still carries what had been stored in them by then.              *)

elEnvelope == <<"E", "n", "v", "e", "l", "o", "p", "e">>
elBody == <<"B", "o", "d", "y">>
elFault == <<"F", "a", "u", "l", "t">>
elFaultcode == <<"f", "a", "u", "l", "t", "c", "o", "d", "e">>
elFaultstring == <<"f", "a", "u", "l", "t", "s", "t", "r", "i", "n", "g">>
elFaultactor == <<"f", "a", "u", "l", "t", "a", "c", "t", "o", "r">>
elDetail == <<"d", "e", "t", "a", "i", "l">>

ZeroFault == Fault(<<>>, <<>>, <<>>, <<>>)

\* The values reached through a pointer or held in place: a failure inside
\* one leaves it partly filled.  A string or []byte field is set only when
\* its element has ended.
inPlace == {"body", "Fault", "Action", "Args"}

NoField == [fld |-> "", typ |-> "skip", val |-> <<>>]

\* type body: a child named Fault, in any namespace, is stored in Fault; every
\* other child is stored in Action.
BodyField(name) == IF name.Local = elFault THEN "Fault" ELSE "Action"

\* type Fault: the field a child element is stored in, by its local name.
FaultField(name) ==
    CASE name.Local = elFaultcode -> "Code"
      [] name.Local = elFaultstring -> "String"
      [] name.Local = elFaultactor -> "Actor"
      [] name.Local = elDetail -> "Detail"
      [] OTHER -> ""

\* The caller's Args struct: whether a child element is stored in its field
\* Foo, `xml:"<ns> foo"`.
ArgsField(a, name) == name.Local = elFoo /\ (a.ns = <<>> \/ a.ns = name.Space)

\* FieldOf with a body that stores in Action only the child that has the name
\* the caller's Action came with.
FieldOfNamed(typ, v, name) ==
    CASE typ = "envelope" ->
           IF name = Name(soapEnvNS, elBody)
           THEN [fld |-> "Body", typ |-> "body", val |-> v.Body]
           ELSE NoField
      [] typ = "body" ->
           IF BodyField(name) = "Fault"
           THEN [fld |-> "Fault", typ |-> "Fault",
                 val |-> IF v.Fault = NoFault THEN ZeroFault ELSE v.Fault]
           ELSE IF name = v.Action.XMLName
           THEN [fld |-> "Action", typ |-> "Action", val |-> v.Action]
           ELSE NoField
      [] typ = "Fault" ->
           CASE FaultField(name) = "" -> NoField
             [] FaultField(name) = "Detail" ->
                  [fld |-> "Detail", typ |-> "FaultDetail", val |-> v.Detail]
             [] OTHER -> [fld |-> FaultField(name), typ |-> "string", val |-> <<>>]
      [] typ = "Action" ->
           IF v.Args.kind = "ptr"
           THEN [fld |-> "Args", typ |-> "Args", val |-> v.Args]
           ELSE NoField
      [] typ = "Args" ->
           IF ArgsField(v, name)
           THEN [fld |-> "foo", typ |-> "string", val |-> <<>>]
           ELSE NoField
      [] OTHER -> NoField

\* unmarshalPath and the `,any` field: for a child element named name of a
\* value v of type typ, the field that takes it, the field's type and the
\* value unmarshal starts from (a nil *Fault is allocated).  Action.Args takes
\* every child of the action element, and is decoded only when the interface
\* holds a non-nil pointer.
FieldOf(typ, v, name) ==
    CASE typ = "envelope" ->
           IF name = Name(soapEnvNS, elBody)
           THEN [fld |-> "Body", typ |-> "body", val |-> v.Body]
           ELSE NoField
      [] typ = "body" ->
           IF BodyField(name) = "Fault"
           THEN [fld |-> "Fault", typ |-> "Fault",
                 val |-> IF v.Fault = NoFault THEN ZeroFault ELSE v.Fault]
           ELSE [fld |-> "Action", typ |-> "Action", val |-> v.Action]
      [] typ = "Fault" ->
           CASE FaultField(name) = "" -> NoField
             [] FaultField(name) = "Detail" ->
                  [fld |-> "Detail", typ |-> "FaultDetail", val |-> v.Detail]
             [] OTHER -> [fld |-> FaultField(name), typ |-> "string", val |-> <<>>]
      [] typ = "Action" ->
           IF v.Args.kind = "ptr"
           THEN [fld |-> "Args", typ |-> "Args", val |-> v.Args]
           ELSE NoField
      [] typ = "Args" ->
           IF ArgsField(v, name)
           THEN [fld |-> "foo", typ |-> "string", val |-> <<>>]
           ELSE NoField
      [] OTHER -> NoField

\* ActionStart that leaves the name alone.
ActionStartKeep(act, name) == act

\* Action.XMLName, an untagged xml.Name: it takes the name of the element.
ActionStart(act, name) == [act EXCEPT !.XMLName = name]

\* What unmarshal stores when it has read the start tag.
Start(typ, v, name) == IF typ = "Action" THEN ActionStart(v, name) ELSE v

\* InnerXML as if Raw were the element's character data.
InnerText(s, from, to) == text(s, from, "", <<>>).data

\* FaultDetail.Raw, `xml:",innerxml"`: the bytes of the input from the end of
\* the start tag to the start of the end tag.
InnerXML(s, from, to) == SubSeq(s, from, to - 1)

\* What unmarshal stores when it has read the end tag, which begins at i;
\* the element's content began at from.
Finish(typ, v, s, from, i) ==
    IF typ = "FaultDetail" THEN [Raw |-> InnerXML(s, from, i)] ELSE v

\* A field set to the value decoded for it.
Store(v, f, x) == IF f.fld = "" THEN v ELSE [v EXCEPT ![f.fld] = x]

RECURSIVE content(_, _, _, _, _, _, _)
RECURSIVE Unmarshal(_, _, _, _)

\* After a child element was decoded with result r.
after(s, from, raw, ns, typ, v, f, r) ==
    IF r.ok THEN content(s, from, r.next, raw, ns, typ, Store(v, f, r.val))
    ELSE [ok |-> FALSE, next |-> 0,
          val |-> IF f.typ \in inPlace THEN Store(v, f, r.val) ELSE v]

\* A child element with start tag t, taken by field f.
child(s, from, raw, ns, typ, v, t, f) ==
    after(s, from, raw, ns, typ, v, f, Unmarshal(s, t, f.typ, f.val))

\* One token t, read at i, of the content of an element with name raw (as
\* written) and value v of type typ.  Character data is kept for a string;
\* an end tag must match the start tag.
step(s, from, i, raw, ns, typ, v, t) ==
    CASE t.kind = "text" ->
           content(s, from, t.next, raw, ns, typ,
                   IF typ = "string" THEN v \o t.data ELSE v)
      [] t.kind = "pi" -> content(s, from, t.next, raw, ns, typ, v)
      [] t.kind = "start" -> child(s, from, raw, ns, typ, v, t, FieldOf(typ, v, t.name))
      [] t.kind = "end" /\ t.raw = raw ->
           [ok |-> TRUE, next |-> t.next, val |-> Finish(typ, v, s, from, i)]
      [] OTHER -> [ok |-> FALSE, next |-> 0, val |-> v]

\* The content from i on.
content(s, from, i, raw, ns, typ, v) ==
    step(s, from, i, raw, ns, typ, v, Tok(s, i, ns))

\* (*Decoder).unmarshal(v, &t): [ok, next, val].
Unmarshal(s, t, typ, v) ==
    IF t.empty
    THEN [ok |-> TRUE, next |-> t.next,
          val |-> Finish(typ, Start(typ, v, t.name), s, t.next, t.next)]
    ELSE content(s, t.next, t.next, t.raw, t.ns, typ, Start(typ, v, t.name))

\* lines 113-117: env, with the caller's Action behind Body.Action.
NewEnvelope(act) == [Body |-> [Fault |-> NoFault, Action |-> act]]

\* The first start tag of the stream; what precedes it is skipped.
RECURSIVE rootTok(_, _)

rootStep(s, t) ==
    CASE t.kind \in {"text", "pi"} -> rootTok(s, t.next)
      [] t.kind = "start" -> t
      [] OTHER -> Failed

rootTok(s, i) == rootStep(s, Tok(s, i, NoNs))

\* The root must be Envelope in the SOAP envelope namespace.
decodeRoot(s, v, t) ==
    IF t.kind # "start" \/ t.name # Name(soapEnvNS, elEnvelope)
    THEN [ok |-> FALSE, next |-> 0, val |-> v]
    ELSE Unmarshal(s, t, "envelope", v)

\* dec.Decode(&env) with env.Body.Action = action: [ok, next, val], val the
\* envelope.  Decoding ends with the end tag of the root.
Decode(s, act) == decodeRoot(s, NewEnvelope(act), rootTok(s, 1))

-----------------------------------------------------------------------------
(* Read.                                                                   *)

\* ReadReturn without the test of env.Body.Fault.
ReadReturnNoFault(ok, fault) == IF ~ok THEN "err" ELSE "nil"

\* ReadReturn with the test of env.Body.Fault before the test of err.
ReadReturnFaultFirst(ok, fault) ==
    IF fault # NoFault THEN "fault"
    ELSE IF ~ok THEN "err"
    ELSE "nil"

\* lines 121-129: the decode error first, then the Fault, then nil.
ReadReturn(ok, fault) ==
    IF ~ok THEN "err"
    ELSE IF fault # NoFault THEN "fault"
    ELSE "nil"

\* The return of Read when the decoder returned d: the caller's Action is
\* what the decoder made of it.
Return(d, r) ==
    /\ env' = d.val
    /\ recv' = d.val.Body.Action
    /\ rres' = r
    /\ rfault' = IF r = "fault" THEN d.val.Body.Fault ELSE NoFault

Decoded(d) == Return(d, ReadReturn(d.ok, d.val.Body.Fault))

Read ==
    /\ rpc = "ready"
    /\ Decoded(Decode(input, recv0))
    /\ rpc' = "done"
    /\ UNCHANGED <<mode, shape, input, recv0>>
    /\ UNCHANGED writeVars

-----------------------------------------------------------------------------
(* The callers: the actions sent, the documents received.                  *)

nsA == <<"u", "r", "n", ":", "a">>
nsB == <<"u", "r", "n", ":", "b">>
nsP == <<"u", "r", "n", ":", "p">>
lnAct == <<"A", "c", "t">>
lnOther == <<"O", "t", "h", "e", "r">>

\* Local names: a plain one, the name of the Fault element, one with
\* characters that are escaped, the empty one.
LocalNames == {lnAct, elFault, <<"a", "&", "\"">>, <<>>}
Spaces == {nsA, <<"u", "&", "<">>}
Payloads ==
    {NilArgs,
     Args("chan", <<>>, <<>>),
     Args("val", <<>>, <<"x">>),
     Args("ptr", <<>>, <<>>),
     Args("ptr", <<>>, <<"<", "&", " ">>),
     Args("ptr", nsP, <<"x">>)}
Actions == {Action(Name(sp, ln), a) : sp \in Spaces, ln \in LocalNames, a \in Payloads}

\* The children of a received Body: Fault elements and action elements.
\* The first Fault is the one of the specification's example; the second has
\* escaped text and an entity inside its detail.
FaultKids ==
    {[kind |-> "fault",
      fault |-> Fault(<<"S", "e", "r", "v", "e", "r">>, <<"b", "o", "o", "m">>,
                      <<"s", "v", "c", "1">>,
                      <<"<", "x", ">", "1", "<", "/", "x", ">">>)],
     [kind |-> "fault",
      fault |-> Fault(<<"a", "&">>, <<"<">>, <<>>,
                      <<"<", "y", "/", ">", "&", "a", "m", "p", ";">>)]}
ElemKids ==
    {[kind |-> "elem", name |-> Name(nsA, lnAct), foo |-> <<"x">>],
     [kind |-> "elem", name |-> Name(nsB, lnOther), foo |-> <<"y", "&">>]}
Kids == FaultKids \cup ElemKids

Element(local, inner) == StartTag(<<>>, local) \o inner \o EndTag(local)

\* A child as the peer writes it: an action element as Write frames it, a
\* Fault in the envelope's namespace with its four children.
RenderKid(k) ==
    IF k.kind = "elem"
    THEN env1 \o k.name.Local \o env2 \o EscapeString(k.name.Space) \o env3
         \o Marshal(Args("ptr", <<>>, k.foo)).bytes
         \o env4 \o k.name.Local \o env5
    ELSE Element(<<"s", ":">> \o elFault,
                 Element(elFaultcode, EscapeString(k.fault.Code))
                 \o Element(elFaultstring, EscapeString(k.fault.String))
                 \o Element(elFaultactor, EscapeString(k.fault.Actor))
                 \o Element(elDetail, k.fault.Detail.Raw))

RECURSIVE RenderKids(_)
RenderKids(ks) == IF ks = <<>> THEN <<>> ELSE RenderKid(Head(ks)) \o RenderKids(Tail(ks))

\* The document of a shape: the envelope around the children, less the last
\* cut * CutStep bytes.
Render(sh) ==
    LET doc == envOpen \o RenderKids(sh.kids) \o envClose
        keep == Len(doc) - sh.cut * CutStep
    IN  SubSeq(doc, 1, IF keep < 0 THEN 0 ELSE keep)

KidSeqs == UNION {[1..n -> Kids] : n \in 0..MaxChildren}
Shapes == {[kids |-> ks, cut |-> c] : ks \in KidSeqs, c \in 0..MaxCut}
NoShape == [kids |-> <<>>, cut |-> 0]

\* The Action the receiving caller passes: the name it expects, and a
\* payload that already holds a value.
Receivers ==
    {Action(Name(nsA, lnAct), Args("ptr", <<>>, <<"z">>)),
     Action(Name(nsA, lnAct), Args("val", <<>>, <<"z">>)),
     Action(Name(nsA, lnAct), NilArgs)}

NoAction == Action(Name(<<>>, <<>>), NilArgs)
NewWriter == [data |-> <<>>, calls |-> 0, errs |-> 0, late |-> 0]

InitSend ==
    /\ mode = "send"
    /\ action \in Actions
    /\ pc = "envOpen"
    /\ err = FALSE
    /\ ret = "none"
    /\ wr = NewWriter
    /\ failAt \in 0..MaxFailAt
    /\ sticky \in BOOLEAN
    /\ shortN \in 0..MaxShort
    /\ failAt = 0 => ~sticky /\ shortN = 0
    /\ shape = NoShape
    /\ input = <<>>
    /\ recv0 = NoAction
    /\ recv = NoAction
    /\ env = NewEnvelope(NoAction)
    /\ rpc = "idle"
    /\ rres = "none"
    /\ rfault = NoFault

InitRecv ==
    /\ mode = "recv"
    /\ action = NoAction
    /\ pc = "idle"
    /\ err = FALSE
    /\ ret = "none"
    /\ wr = NewWriter
    /\ failAt = 0
    /\ sticky = FALSE
    /\ shortN = 0
    /\ shape \in Shapes
    /\ input = Render(shape)
    /\ recv0 \in Receivers
    /\ recv = recv0
    /\ env = NewEnvelope(recv0)
    /\ rpc = "ready"
    /\ rres = "none"
    /\ rfault = NoFault

Init == InitSend \/ InitRecv

\* The caller that sent an action reads what Write delivered into a fresh
\* Action of the same payload type.
Deliver ==
    /\ mode = "send"
    /\ pc = "done"
    /\ ret = "nil"
    /\ rpc = "idle"
    /\ input' = wr.data
    /\ recv0' = Action(Name(<<>>, <<>>), ZeroArgs(action.Args))
    /\ recv' = recv0'
    /\ env' = NewEnvelope(recv0')
    /\ rpc' = "ready"
    /\ UNCHANGED <<mode, shape, rres, rfault>>
    /\ UNCHANGED writeVars

Next == Write \/ Deliver \/ Read

Spec == Init /\ [][Next]_vars

-----------------------------------------------------------------------------
(* Properties.                                                             *)

IsPrefix(a, b) == Len(a) <= Len(b) /\ SubSeq(b, 1, Len(a)) = a

\* The escape of one character of character data, as the claims state it.
xmlEscapedChar(c) ==
    CASE c = "&" -> <<"&", "a", "m", "p", ";">>
      [] c = "<" -> <<"&", "l", "t", ";">>
      [] c = ">" -> <<"&", "g", "t", ";">>
      [] c = "\"" -> <<"&", "#", "3", "4", ";">>
      [] c = "'" -> <<"&", "#", "3", "9", ";">>
      [] c = "\t" -> <<"&", "#", "x", "9", ";">>
      [] c = "\n" -> <<"&", "#", "x", "A", ";">>
      [] c = "\r" -> <<"&", "#", "x", "D", ";">>
      [] OTHER -> <<c>>

RECURSIVE xmlEscaped(_)
xmlEscaped(s) ==
    IF s = <<>> THEN <<>> ELSE xmlEscapedChar(Head(s)) \o xmlEscaped(Tail(s))

\* The envelope of an action: the five parts in order.
Envelope(a) ==
    envOpen
    \o <<"<", "u", ":">> \o xmlEscaped(a.XMLName.Local)
    \o <<" ", "x", "m", "l", "n", "s", ":", "u", "=", "\"">>
    \o xmlEscaped(a.XMLName.Space) \o <<"\"", ">">>
    \o Marshal(a.Args).bytes
    \o <<"<", "/", "u", ":">> \o xmlEscaped(a.XMLName.Local) \o <<">">>
    \o <<"<", "/", "s", ":", "B", "o", "d", "y", ">", "<", "/", "s", ":", "E", "n", "v",
         "e", "l", "o", "p", "e", ">">>

\* The places of a stream where a default namespace is declared: an
\* attribute  xmlns="..."  or  xmlns='...'.
DefaultNsDecls(s) ==
    {i \in 1..(Len(s) - 7) :
        /\ s[i] \in spaces
        /\ SubSeq(s, i + 1, i + 6) = <<"x", "m", "l", "n", "s", "=">>
        /\ s[i + 7] \in {"\"", "'"}}

HasFault(sh) == \E i \in 1..Len(sh.kids) : sh.kids[i].kind = "fault"
HasElem(sh) == \E i \in 1..Len(sh.kids) : sh.kids[i].kind = "elem"
LastElem(sh) ==
    sh.kids[CHOOSE i \in 1..Len(sh.kids) :
                /\ sh.kids[i].kind = "elem"
                /\ \A j \in (i + 1)..Len(sh.kids) : sh.kids[j].kind # "elem"]

\* A local name that is an XML name without a colon.
ValidLocal(n) ==
    /\ n # <<>>
    /\ n[1] \in nameStart \ {":"}
    /\ \A k \in 1..Len(n) : n[k] \in nameBytes \ {":"}

Received == mode = "recv" /\ rpc = "done"
RoundTrip == mode = "send" /\ rpc = "done" /\ wr.errs = 0

\* C1 (as claimed): once a write call of the stream has failed, Write makes
\* no further call and has returned that error.
C1_AbortsAtFirstError ==
    /\ wr.late = 0
    /\ wr.errs > 0 => pc = "done" /\ ret = "io"

\* C2: a received document that decodes and whose Body holds a Fault makes
\* Read return the Fault, never nil, wherever the Fault stands among the
\* children and whatever was decoded into the action.
C2_FaultPrecedence ==
    Received /\ HasFault(shape) /\ (shape.cut = 0 \/ rres # "err")
        => rres = "fault" /\ rfault # NoFault

C2_Witness ==
    /\ Received
    /\ Len(shape.kids) = 2
    /\ shape.kids[1].kind = "elem"
    /\ shape.kids[2].kind = "fault"
    /\ shape.cut = 0
    /\ recv.Args # recv0.Args
    /\ rres = "fault"

\* C3: as long as no write call has failed, the stream holds a prefix of the
\* envelope of the action, and the whole of it, nothing else, when Write
\* has returned nil.
C3_ExactBytes ==
    mode = "send" /\ wr.errs = 0
        => /\ IsPrefix(wr.data, Envelope(action))
           /\ ret = "nil" => wr.data = Envelope(action)

C3_Witness ==
    /\ mode = "send"
    /\ ret = "nil"
    /\ wr.errs = 0
    /\ action.XMLName.Local = <<"a", "&", "\"">>
    /\ action.Args.kind = "ptr"
    /\ wr.data = Envelope(action)

C5_NoDefaultNs == DefaultNsDecls(wr.data) = {}

\* C5 (amended): the stream declares a default namespace only where the
\* marshaled payload does; the framing declares none.
C5_FramingNoDefaultNs ==
    Cardinality(DefaultNsDecls(wr.data))
        <= Cardinality(DefaultNsDecls(Marshal(action.Args).bytes))

C5_Witness ==
    /\ mode = "send"
    /\ ret = "nil"
    /\ wr.errs = 0
    /\ action.Args.ns = nsP
    /\ Cardinality(DefaultNsDecls(wr.data)) = 1

\* C6: a received document whose decoding fails makes Read return the
\* decode error and no Fault, also when a Fault had been decoded.
C6_DecodeErrorFirst ==
    Received /\ shape.cut > 0 => rres = "err" /\ rfault = NoFault

C6_Witness ==
    /\ Received
    /\ shape.cut = 1
    /\ Len(shape.kids) = 1
    /\ shape.kids[1].kind = "fault"
    /\ env.Body.Fault = shape.kids[1].fault
    /\ rres = "err"

\* C7: a well-formed document whose Body holds one child, not a Fault, with
\* another name than the caller's Action came with makes Read return nil,
\* and the child is decoded into the payload the Action points to.
C7_PositionalMatch ==
    /\ Received
    /\ shape.cut = 0
    /\ Len(shape.kids) = 1
    /\ shape.kids[1].kind = "elem"
    /\ shape.kids[1].name # recv0.XMLName
    => /\ rres = "nil"
       /\ recv0.Args.kind = "ptr" => recv.Args = Args("ptr", <<>>, shape.kids[1].foo)

C7_Witness ==
    /\ Received
    /\ shape = [kids |-> <<[kind |-> "elem", name |-> Name(nsB, lnOther),
                           foo |-> <<"y", "&">>]>>, cut |-> 0]
    /\ recv0 = Action(Name(nsA, lnAct), Args("ptr", <<>>, <<"z">>))
    /\ rres = "nil"
    /\ recv.Args.foo = <<"y", "&">>

\* C8: the Fault Read returns for a Body with one Fault has the text of
\* faultcode, faultstring and faultactor, and the bytes of the content of
\* detail as they stand in the document.
C8_FaultFields ==
    Received /\ rres = "fault"
        => \A i \in 1..Len(shape.kids) :
              /\ shape.kids[i].kind = "fault"
              /\ \A j \in 1..Len(shape.kids) : j # i => shape.kids[j].kind = "elem"
              => rfault = shape.kids[i].fault

C8_Witness ==
    /\ Received
    /\ rres = "fault"
    /\ Len(shape.kids) = 1
    /\ rfault = Fault(<<"a", "&">>, <<"<">>, <<>>,
                      <<"<", "y", "/", ">", "&", "a", "m", "p", ";">>)

\* C9 (as claimed): Write returns nil only if every write call succeeded, and
\* the stream then holds the whole envelope.
C9_NilOnlyIfAllWritten ==
    pc = "done" /\ ret = "nil" => wr.errs = 0 /\ wr.data = Envelope(action)

\* C10 (as claimed): after Read of a well-formed document the Action has the
\* name of the last child of the Body that is not a Fault; without such a
\* child the Action is as the caller passed it and Read returned nil.
C10_NameOverwritten ==
    Received /\ shape.cut = 0
        => IF HasElem(shape) THEN recv.XMLName = LastElem(shape).name
           ELSE recv = recv0 /\ rres = "nil"

\* C10 (amended): without such a child the Action is as the caller passed it,
\* and Read returned nil if the Body holds no Fault, the Fault if it does.
C10_NameOverwrittenOrKept ==
    /\ Received /\ shape.cut = 0
           => IF HasElem(shape) THEN recv.XMLName = LastElem(shape).name
              ELSE /\ recv = recv0
                   /\ rres = IF HasFault(shape) THEN "fault" ELSE "nil"
    /\ Received /\ ~HasElem(shape) => recv = recv0

C10_Witness ==
    /\ Received
    /\ shape.cut = 0
    /\ Len(shape.kids) = 1
    /\ shape.kids[1].kind = "elem"
    /\ recv0.XMLName = Name(nsA, lnAct)
    /\ recv.XMLName = Name(nsB, lnOther)

====
